---- MODULE Spec2Model ----
(***************************************************************************)
(* Model of src/mbg-icd-extractor.js: extraction of one IED, its slice of  *)
(* the Communication section and the data type templates it uses, from an  *)
(* SCL document into a new SCL document.                                   *)
(*                                                                         *)
(* A DOM node is a record [tag, name, body]: name is the attribute that    *)
(* identifies the node (name, iedName, id) and body its element children   *)
(* in document order.  A reference child of a template (DO, DA, SDO, BDA)  *)
(* is a record [tag, type].  A document is the sequence of the children of *)
(* its root element.                                                       *)
(***************************************************************************)
EXTENDS Integers, Sequences, FiniteSets, TLC

\* ------------------------------------------------------------------ bounds

\* Largest number of SubNetwork elements in a Communication section.
MaxSubNets == 2

\* Largest number of ConnectedAP elements in one SubNetwork.
MaxAPs == 2

\* ------------------------------------------------------------- DOM values

\* The value of an optional chain that found nothing (undefined / null).
Null == [tag |-> "#null", name |-> "", body |-> <<>>]

\* getAttribute('type') of a DA or BDA of a basic type: null, which is falsy.
NoType == ""

Node(t, n, b) == [tag |-> t, name |-> n, body |-> b]

Ref(t, ty) == [tag |-> t, type |-> ty]

\* Array.prototype.includes
includes(arr, x) == \E k \in 1..Len(arr) : arr[k] = x

\* parent.querySelectorAll(tag) over the element children of a node.
querySelectorAll(node, tags) ==
    SelectSeq(node.body, LAMBDA c : c.tag \in tags)

\* root.querySelector(':root>tag') / templates.querySelector('tag[id="id"]'):
\* the first match in document order, or null.
First(seq) == IF seq = <<>> THEN Null ELSE Head(seq)

querySelectorRoot(document, tag) ==
    First(SelectSeq(document, LAMBDA c : c.tag = tag))

querySelectorId(templates, tag, id) ==
    First(SelectSeq(templates.body, LAMBDA c : c.tag = tag /\ c.name = id))

\* node.cloneNode(true): a deep copy, equal in structure and attributes.
cloneNode(node) == Node(node.tag, node.name, node.body)

\* The sequence seq without the positions in gone, from position k on.
RECURSIVE DropAt(_, _, _)
DropAt(seq, k, gone) ==
    IF k > Len(seq) THEN <<>>
    ELSE (IF k \in gone THEN <<>> ELSE <<seq[k]>>) \o DropAt(seq, k + 1, gone)

\* --------------------------------------------------- extractCommunication

\* A ConnectedAP of the clone is handled by its place <<s, k>> in the clone
\* as it was cloned: child k of child s of the Communication element.  A
\* removal unlinks the node and leaves the handles of the others valid.

\* comm.querySelectorAll('ConnectedAP:not([iedName="name"])') within child s.
RECURSIVE NotConnAPsIn(_, _, _, _)
NotConnAPsIn(subnet, s, k, name) ==
    IF k > Len(subnet.body) THEN <<>>
    ELSE (IF subnet.body[k].tag = "ConnectedAP" /\ subnet.body[k].name # name
          THEN << <<s, k>> >> ELSE <<>>)
         \o NotConnAPsIn(subnet, s, k + 1, name)

RECURSIVE NotConnAPsFrom(_, _, _)
NotConnAPsFrom(comm, s, name) ==
    IF s > Len(comm.body) THEN <<>>
    ELSE NotConnAPsIn(comm.body[s], s, 1, name) \o NotConnAPsFrom(comm, s + 1, name)

notConnAPs(comm, name) == NotConnAPsFrom(comm, 1, name)

\* subnet.querySelector('ConnectedAP') after the removals in goneAPs.
HasConnectedAP(comm, s, goneAPs) ==
    \E k \in 1..Len(comm.body[s].body) :
        comm.body[s].body[k].tag = "ConnectedAP" /\ <<s, k>> \notin goneAPs

\* notConnAPs.forEach: unlink the ConnectedAP, then unlink its SubNetwork
\* when no ConnectedAP is left in it.  gone = [aps, subnets] unlinked so far.
RECURSIVE RemoveNotConnAPs(_, _, _)
RemoveNotConnAPs(comm, todo, gone) ==
    IF todo = <<>> THEN gone
    ELSE LET h == Head(todo)
             aps == gone.aps \cup {h}
             subnets == IF HasConnectedAP(comm, h[1], aps)
                        THEN gone.subnets
                        ELSE gone.subnets \cup {h[1]}
         IN RemoveNotConnAPs(comm, Tail(todo), [aps |-> aps, subnets |-> subnets])

\* The tree that is left of comm once the nodes in gone are unlinked.
RECURSIVE Unlinked(_, _, _)
Unlinked(comm, s, gone) ==
    IF s > Len(comm.body) THEN <<>>
    ELSE (IF s \in gone.subnets THEN <<>>
          ELSE << Node(comm.body[s].tag, comm.body[s].name,
                       DropAt(comm.body[s].body, 1,
                              {k \in 1..Len(comm.body[s].body) : <<s, k>> \in gone.aps})) >>)
         \o Unlinked(comm, s + 1, gone)

\* The Communication element comm after the filtering of lines 22-36, for
\* the IED named name.
filterCommunication(comm, name) ==
    LET gone == RemoveNotConnAPs(comm, notConnAPs(comm, name),
                                 [aps |-> {}, subnets |-> {}])
    IN Node(comm.tag, comm.name, Unlinked(comm, 1, gone))

\* ------------------------------------------------------- extractTemplates

\* The kinds of element the final pass of extractTemplates looks at.
TemplateTags == {"LNodeType", "DOType", "DAType", "EnumType"}

\* lines 47-52: the lnType of every LN0 and LN of the IED, without repeats.
RECURSIVE PushLnTypes(_, _)
PushLnTypes(lns, acc) ==
    IF lns = <<>> THEN acc
    ELSE PushLnTypes(Tail(lns),
                     IF includes(acc, Head(lns).type) THEN acc
                     ELSE Append(acc, Head(lns).type))

collectLnTypes(ied) == PushLnTypes(querySelectorAll(ied, {"LN0", "LN"}), <<>>)

\* lines 58-62: the type of every DO of one LNodeType, pushed when new.
RECURSIVE PushDOs(_, _)
PushDOs(dos, acc) ==
    IF dos = <<>> THEN acc
    ELSE PushDOs(Tail(dos),
                 IF includes(acc, Head(dos).type) THEN acc
                 ELSE Append(acc, Head(dos).type))

\* lines 54-64: one pass over lnTypes; an id without LNodeType is skipped.
RECURSIVE PushDoTypes(_, _, _)
PushDoTypes(templates, lnTypes, acc) ==
    IF lnTypes = <<>> THEN acc
    ELSE LET lnType == querySelectorId(templates, "LNodeType", Head(lnTypes))
         IN PushDoTypes(templates, Tail(lnTypes),
                        IF lnType # Null
                        THEN PushDOs(querySelectorAll(lnType, {"DO"}), acc)
                        ELSE acc)

collectDoTypes(templates, lnTypes) == PushDoTypes(templates, lnTypes, <<>>)

\* lines 71-78: the type of every DA of one DOType, pushed when it is set
\* and new.  The kind of template the type names is not looked at.
RECURSIVE PushDAs(_, _)
PushDAs(das, acc) ==
    IF das = <<>> THEN acc
    ELSE PushDAs(Tail(das),
                 IF Head(das).type # NoType /\ ~includes(acc, Head(das).type)
                 THEN Append(acc, Head(das).type)
                 ELSE acc)

\* lines 66-78, 89-90: one pass over doTypes; an id without DOType is skipped.
RECURSIVE PushDaTypes(_, _, _)
PushDaTypes(templates, doTypes, acc) ==
    IF doTypes = <<>> THEN acc
    ELSE LET doTypeElement == querySelectorId(templates, "DOType", Head(doTypes))
         IN PushDaTypes(templates, Tail(doTypes),
                        IF doTypeElement # Null
                        THEN PushDAs(querySelectorAll(doTypeElement, {"DA"}), acc)
                        ELSE acc)

\* collectDaTypes keeping only the ids that name a DAType of the pool.
collectDaTypesOfDAType(templates, doTypes) ==
    SelectSeq(PushDaTypes(templates, doTypes, <<>>),
              LAMBDA t : querySelectorId(templates, "DAType", t) # Null)

collectDaTypes(templates, doTypes) == PushDaTypes(templates, doTypes, <<>>)

\* lines 80-88 and 96-104: the type of every SDO (BDA) of one DOType
\* (DAType), pushed when it is set, new, and not in the list being walked.
RECURSIVE PushNested(_, _, _)
PushNested(refs, walked, acc) ==
    IF refs = <<>> THEN acc
    ELSE PushNested(Tail(refs), walked,
                    IF /\ Head(refs).type # NoType
                       /\ ~includes(acc, Head(refs).type)
                       /\ ~includes(walked, Head(refs).type)
                    THEN Append(acc, Head(refs).type)
                    ELSE acc)

\* lines 67-90: one pass over doTypes (rest is what is left of it); the ids
\* pushed to sdoTypes are not walked in turn.
RECURSIVE PushSdoTypes(_, _, _, _)
PushSdoTypes(templates, doTypes, rest, acc) ==
    IF rest = <<>> THEN acc
    ELSE LET doTypeElement == querySelectorId(templates, "DOType", Head(rest))
         IN PushSdoTypes(templates, doTypes, Tail(rest),
                         IF doTypeElement # Null
                         THEN PushNested(querySelectorAll(doTypeElement, {"SDO"}),
                                         doTypes, acc)
                         ELSE acc)

collectSdoTypes(templates, doTypes) == PushSdoTypes(templates, doTypes, doTypes, <<>>)

\* lines 92-106: one pass over daTypes; the ids pushed to bdaTypes are not
\* walked in turn.
RECURSIVE PushBdaTypes(_, _, _, _)
PushBdaTypes(templates, daTypes, rest, acc) ==
    IF rest = <<>> THEN acc
    ELSE LET daTypeElement == querySelectorId(templates, "DAType", Head(rest))
         IN PushBdaTypes(templates, daTypes, Tail(rest),
                         IF daTypeElement # Null
                         THEN PushNested(querySelectorAll(daTypeElement, {"BDA"}),
                                         daTypes, acc)
                         ELSE acc)

collectBdaTypes(templates, daTypes) == PushBdaTypes(templates, daTypes, daTypes, <<>>)

\* lines 108-115: all found types in one array.
collectFoundTypes(templates, ied) ==
    LET lnTypes == collectLnTypes(ied)
        doTypes == collectDoTypes(templates, lnTypes)
        sdoTypes == collectSdoTypes(templates, doTypes)
        daTypes == collectDaTypes(templates, doTypes)
        bdaTypes == collectBdaTypes(templates, daTypes)
    IN lnTypes \o doTypes \o sdoTypes \o daTypes \o bdaTypes

\* lines 117-124: every LNodeType, DOType, DAType and EnumType whose id is
\* not among the found types is removed; the id alone decides.
removeUnused(templates, found) ==
    Node(templates.tag, templates.name,
         SelectSeq(templates.body,
                   LAMBDA e : ~(e.tag \in TemplateTags /\ ~includes(found, e.name))))

\* ------------------------------------------------------- source documents

\* The names of the IEDs of the source document.
DeviceNames == {"Dev1", "Dev2"}

\* Dev1 has two logical nodes of one type, Dev2 one of another type.
Devices ==
    << Node("IED", "Dev1", << Ref("LN0", "a"), Ref("LN", "a") >>),
       Node("IED", "Dev2", << Ref("LN0", "b") >>) >>

\* Every sequence over S of length 0..n.
SeqsUpTo(S, n) == UNION {[1..k -> S] : k \in 0..n}

\* A Communication section of SubNetworks S1, S2, ... whose ConnectedAPs
\* carry the iedNames in shape[s].
CommunicationOf(shape) ==
    Node("Communication", "",
         [s \in 1..Len(shape) |->
            Node("SubNetwork", "S" \o ToString(s),
                 [k \in 1..Len(shape[s]) |->
                    Node("ConnectedAP", shape[s][k], <<>>)])])

Communications ==
    {CommunicationOf(shape) :
        shape \in SeqsUpTo(SeqsUpTo(DeviceNames, MaxAPs), MaxSubNets)}

\* One SubNetwork shared by both devices, one of Dev2 alone.
BaseCommunication == CommunicationOf(<< <<"Dev1", "Dev2">>, <<"Dev2">> >>)

\* A template that is absent, or present with one of the given bodies.
Template(tag, id, bodies) == {<<>>} \cup {<< Node(tag, id, b) >> : b \in bodies}

\* Template pools over the ids a to e: every template is optional, a DOType
\* and a DAType may nest (SDO, BDA) over several levels and in cycles, a DA
\* or BDA may name a DAType, an EnumType, nothing, or no template at all,
\* and an id may be carried by templates of several kinds.
TemplatePools ==
    {Node("DataTypeTemplates", "", l1 \o l2 \o d1 \o d2 \o d3 \o a3 \o a4 \o e3 \o e5) :
        l1 \in Template("LNodeType", "a", {<< Ref("DO", "a") >>,
                                           << Ref("DO", "a"), Ref("DO", "b") >>}),
        l2 \in Template("LNodeType", "b", {<< Ref("DO", "c") >>}),
        d1 \in Template("DOType", "a", {<< Ref("DA", NoType), Ref("DA", "c"), Ref("SDO", "b") >>,
                                        << Ref("SDO", "b") >>}),
        d2 \in Template("DOType", "b", {<< Ref("SDO", "c") >>,
                                        << Ref("DA", "d"), Ref("SDO", "a") >>}),
        d3 \in Template("DOType", "c", {<< Ref("DA", "c") >>,
                                        << Ref("SDO", "a") >>}),
        a3 \in Template("DAType", "c", {<< Ref("BDA", "d") >>,
                                        << Ref("BDA", NoType), Ref("BDA", "c") >>}),
        a4 \in Template("DAType", "d", {<< Ref("BDA", "e") >>, <<>>}),
        e3 \in Template("EnumType", "c", {<<>>}),
        e5 \in Template("EnumType", "e", {<<>>})}

\* A pool in which every reference of both devices resolves.
BasePool ==
    Node("DataTypeTemplates", "",
         << Node("LNodeType", "a", << Ref("DO", "a") >>),
            Node("LNodeType", "b", << Ref("DO", "c") >>),
            Node("DOType", "a", << Ref("DA", NoType), Ref("DA", "b"), Ref("SDO", "b") >>),
            Node("DOType", "b", <<>>),
            Node("DOType", "c", << Ref("DA", "c") >>),
            Node("DAType", "b", <<>>),
            Node("EnumType", "c", <<>>) >>)

\* The children of the SCL root: Header, Communication (when there is
\* one), the IEDs, DataTypeTemplates (when there is one).
Document(comm, pool) == << Node("Header", "", <<>>) >> \o comm \o Devices \o pool

Documents ==
    {Document(<< c >>, << BasePool >>) : c \in Communications}
    \cup {Document(<< BaseCommunication >>, << p >>) : p \in TemplatePools}
    \cup {Document(<<>>, << BasePool >>),
          Document(<< BaseCommunication >>, <<>>),
          Document(<<>>, <<>>)}

\* ------------------------------------------------------------------ state

VARIABLES
    doc,         \* the source document (this.doc): the children of its root
    pc,          \* where the click handler downloadIED stands
    ied,         \* the place in doc of the IED that was clicked, 0 when none
    newDoc,      \* the children of the root of the document extractIED builds
    foundTypes,  \* the array foundTypes of the last extractTemplates
    error,       \* the exception that ended the handler, "none" when none
    downloads    \* for each IED name, the documents downloaded as <name>.cid

vars == <<doc, pc, ied, newDoc, foundTypes, error, downloads>>

Init ==
    /\ doc \in Documents
    /\ pc = "idle"
    /\ ied = 0
    /\ newDoc = <<>>
    /\ foundTypes = <<>>
    /\ error = "none"
    /\ downloads = [n \in DeviceNames |-> {}]

\* render, lines 172 and 194: every IED child of the root is listed, and a
\* click on one starts downloadIED; extractIED creates the new document.
Click(i) ==
    /\ pc \in {"idle", "failed"}
    /\ doc[i].tag = "IED"
    /\ pc' = "comm"
    /\ ied' = i
    /\ newDoc' = <<>>
    /\ foundTypes' = <<>>
    /\ error' = "none"
    /\ UNCHANGED <<doc, downloads>>

\* extractCommunication without the cloneNode of line 20: the section of
\* the source is filtered, and appendChild moves it into the new document.
extractCommunicationNoClone ==
    /\ pc = "comm"
    /\ LET comm == querySelectorRoot(doc, "Communication")
       IN IF comm = Null
          THEN /\ pc' = "failed"
               /\ error' = "TypeError"
               /\ UNCHANGED <<newDoc, doc, ied>>
          ELSE /\ pc' = "ied"
               /\ newDoc' = Append(newDoc, filterCommunication(comm, doc[ied].name))
               /\ doc' = SelectSeq(doc, LAMBDA c : c.tag # "Communication")
               /\ ied' = CHOOSE i \in 1..Len(doc') : doc'[i] = doc[ied]
               /\ UNCHANGED error
    /\ UNCHANGED <<foundTypes, downloads>>

\* line 137: extractCommunication(ied), appended to the new root.  Without
\* a Communication section comm is undefined and line 24 throws.
extractCommunication ==
    /\ pc = "comm"
    /\ LET comm == querySelectorRoot(doc, "Communication")
       IN IF comm = Null
          THEN /\ pc' = "failed"
               /\ error' = "TypeError"
               /\ UNCHANGED newDoc
          ELSE /\ pc' = "ied"
               /\ newDoc' = Append(newDoc, filterCommunication(cloneNode(comm), doc[ied].name))
               /\ UNCHANGED error
    /\ UNCHANGED <<doc, ied, foundTypes, downloads>>

\* appendIED with the copy put before the children the root has.
prependIED ==
    /\ pc = "ied"
    /\ pc' = "templates"
    /\ newDoc' = << cloneNode(doc[ied]) >> \o newDoc
    /\ UNCHANGED <<doc, ied, foundTypes, error, downloads>>

\* line 138: a deep copy of the IED, appended to the new root.
appendIED ==
    /\ pc = "ied"
    /\ pc' = "templates"
    /\ newDoc' = Append(newDoc, cloneNode(doc[ied]))
    /\ UNCHANGED <<doc, ied, foundTypes, error, downloads>>

\* extractTemplates with the copy taken after the removals instead of
\* before them: the pool of the source is filtered.
extractTemplatesCloneLate ==
    /\ pc = "templates"
    /\ LET templates == querySelectorRoot(doc, "DataTypeTemplates")
       IN IF templates = Null
          THEN /\ pc' = "failed"
               /\ error' = "TypeError"
               /\ UNCHANGED <<newDoc, foundTypes, doc>>
          ELSE LET found == collectFoundTypes(templates, doc[ied])
               IN /\ pc' = "built"
                  /\ foundTypes' = found
                  /\ doc' = [k \in 1..Len(doc) |->
                               IF doc[k].tag = "DataTypeTemplates"
                               THEN removeUnused(templates, found)
                               ELSE doc[k]]
                  /\ newDoc' = Append(newDoc, cloneNode(removeUnused(templates, found)))
                  /\ UNCHANGED error
    /\ UNCHANGED <<ied, downloads>>

\* line 139: extractTemplates(ied), appended to the new root.  Without a
\* DataTypeTemplates section templates is undefined and line 56 throws, or
\* line 119 when the IED has no logical node.
extractTemplates ==
    /\ pc = "templates"
    /\ LET templates == querySelectorRoot(doc, "DataTypeTemplates")
       IN IF templates = Null
          THEN /\ pc' = "failed"
               /\ error' = "TypeError"
               /\ UNCHANGED <<newDoc, foundTypes>>
          ELSE LET found == collectFoundTypes(cloneNode(templates), doc[ied])
               IN /\ pc' = "built"
                  /\ foundTypes' = found
                  /\ newDoc' = Append(newDoc, removeUnused(cloneNode(templates), found))
                  /\ UNCHANGED error
    /\ UNCHANGED <<doc, ied, downloads>>

\* lines 141, 147-157: the document is formatted and downloaded under the
\* name of the IED; the handler returns and its locals are gone.
download ==
    /\ pc = "built"
    /\ pc' = "idle"
    /\ downloads' = [downloads EXCEPT ![doc[ied].name] = @ \cup {newDoc}]
    /\ ied' = 0
    /\ newDoc' = <<>>
    /\ foundTypes' = <<>>
    /\ UNCHANGED <<doc, error>>

Next ==
    \/ \E i \in 1..Len(doc) : Click(i)
    \/ extractCommunication
    \/ appendIED
    \/ extractTemplates
    \/ download

Spec == Init /\ [][Next]_vars

\* --------------------------------------------- what the properties speak of

\* The sections of the source document, and the IED being extracted.
srcComm == querySelectorRoot(doc, "Communication")

srcPool == querySelectorRoot(doc, "DataTypeTemplates")

device == doc[ied]

\* The handler has built the whole new document.
Built == pc = "built"

\* The sections of the new document, once appended.
outComm == newDoc[1]

outPool == newDoc[3]

\* The template of kind tag and id id is in pool.
Resolves(pool, tag, id) == querySelectorId(pool, tag, id) # Null

\* The templates a reference child of a template may resolve to: a DO or
\* SDO names a DOType, a DA or BDA names a DAType or an EnumType.
Targets(ref) ==
    IF ref.type = NoType THEN {}
    ELSE IF ref.tag \in {"DO", "SDO"} THEN {<<"DOType", ref.type>>}
    ELSE IF ref.tag \in {"DA", "BDA"}
         THEN {<<"DAType", ref.type>>, <<"EnumType", ref.type>>}
    ELSE {}

\* The references that one more step from the templates in R adds to R.
Successors(pool, R) ==
    UNION {LET el == querySelectorId(pool, r[1], r[2])
           IN UNION {Targets(el.body[k]) : k \in 1..Len(el.body)} : r \in R}

RECURSIVE Closure(_, _)
Closure(pool, R) ==
    LET more == R \cup Successors(pool, R)
    IN IF more = R THEN R ELSE Closure(pool, more)

\* Every <<kind, id>> that the logical nodes of dev reach in pool through
\* LN -> LNodeType -> DOType -> DAType chains, nested SDO and BDA included.
Reachable(pool, dev) ==
    LET lns == querySelectorAll(dev, {"LN0", "LN"})
    IN Closure(pool, {<<"LNodeType", lns[k].type>> : k \in 1..Len(lns)})

\* The five arrays of extractTemplates for the IED being extracted.
lnTypes == collectLnTypes(device)

doTypes == collectDoTypes(srcPool, lnTypes)

sdoTypes == collectSdoTypes(srcPool, doTypes)

daTypes == collectDaTypes(srcPool, doTypes)

bdaTypes == collectBdaTypes(srcPool, daTypes)

\* The types that the children with tag refTag of the template of kind tag
\* and id id name, when pool has that template.
TypesOf(pool, tag, id, refTag) ==
    LET refs == querySelectorAll(querySelectorId(pool, tag, id), {refTag})
    IN {refs[k].type : k \in 1..Len(refs)} \ {NoType}

Elems(seq) == {seq[k] : k \in 1..Len(seq)}

\* ------------------------------------------------------------- properties

\* C1: closure completeness.  Once the new document is built, every
\* template that the logical nodes of the extracted IED reach in the source
\* pool, through lnType, DO, SDO, DA and BDA types to any depth, is in the
\* pool of the new document.
ClosureComplete ==
    Built =>
        \A r \in Reachable(srcPool, device) :
            Resolves(srcPool, r[1], r[2]) => Resolves(outPool, r[1], r[2])

\* C2: closure minimality with kind matching.  Once the new document is
\* built, every LNodeType, DOType and DAType kept in its pool is reached by
\* the logical nodes of the extracted IED as a template of that kind and id.
ClosureMinimal ==
    Built =>
        \A k \in 1..Len(outPool.body) :
            outPool.body[k].tag \in {"LNodeType", "DOType", "DAType"}
                => <<outPool.body[k].tag, outPool.body[k].name>>
                       \in Reachable(srcPool, device)

\* The SubNetworks of comm that hold a ConnectedAP of the IED named name,
\* each with the ConnectedAPs of that IED alone, in the order of comm.
DeviceTopology(comm, name) ==
    SelectSeq([s \in 1..Len(comm.body) |->
                 Node(comm.body[s].tag, comm.body[s].name,
                      SelectSeq(comm.body[s].body,
                                LAMBDA c : c.tag = "ConnectedAP" /\ c.name = name))],
              LAMBDA subnet : subnet.body # <<>>)

\* C3: topology correctness.  The Communication section appended to the new
\* document holds exactly the SubNetworks that have a ConnectedAP of the
\* extracted IED in the source, each with exactly the ConnectedAPs of that
\* IED, in source order.
TopologyCorrect ==
    (pc \in {"ied", "templates", "built"})
        => outComm.body = DeviceTopology(srcComm, device.name)

\* C4: source immutability.  No step of the handler, whether it ends in a
\* download or in an exception, changes the source document.
SourceUnchanged == [][doc' = doc]_vars

\* An extraction that removed nodes from both copies has completed.
SourceUnchangedWitness ==
    /\ Built
    /\ outComm # srcComm
    /\ outPool # srcPool

\* C5: idempotence and independence of re-extraction.  Whatever was
\* extracted before, the document built for an IED equals every document
\* downloaded for that IED so far.
ReExtractionIdentical ==
    /\ \A n \in DeviceNames : Cardinality(downloads[n]) <= 1
    /\ Built => downloads[device.name] \subseteq {newDoc}

\* An IED is extracted again, after a download of each IED.
ReExtractionWitness ==
    /\ Built
    /\ downloads[device.name] = {newDoc}
    /\ \A n \in DeviceNames : downloads[n] # {}

\* C6: assembly order and content.  The new root has exactly three
\* children: a Communication section holding SubNetworks and ConnectedAPs
\* of the source of the extracted IED alone, a copy of the extracted IED,
\* and a DataTypeTemplates section holding templates of the source pool.
AssemblyOrder ==
    Built =>
        /\ [k \in 1..Len(newDoc) |-> newDoc[k].tag]
              = <<"Communication", "IED", "DataTypeTemplates">>
        /\ newDoc[2] = device
        /\ \A s \in 1..Len(outComm.body) :
              /\ outComm.body[s].tag = "SubNetwork"
              /\ \E t \in 1..Len(srcComm.body) : srcComm.body[t].name = outComm.body[s].name
              /\ \A k \in 1..Len(outComm.body[s].body) :
                    outComm.body[s].body[k] = Node("ConnectedAP", device.name, <<>>)
        /\ Elems(outPool.body) \subseteq Elems(srcPool.body)

\* The second IED of a document with a Header is built with a topology and
\* templates of its own.
AssemblyOrderWitness ==
    /\ Built
    /\ device.name = "Dev2"
    /\ doc[1].tag = "Header"
    /\ outComm.body # <<>>
    /\ outPool.body # <<>>

\* The ids of the EnumTypes of the source pool.
EnumIds == {e.name : e \in {x \in Elems(srcPool.body) : x.tag = "EnumType"}}

\* The DOTypes that a DO of an LNodeType of the extracted IED names.
DirectDoTypes ==
    LET lns == querySelectorAll(device, {"LN0", "LN"})
    IN UNION {TypesOf(srcPool, "LNodeType", lns[k].type, "DO") : k \in 1..Len(lns)}

\* id is the type of a DA of a DOType that the extracted IED reaches, and
\* of nothing else: it is no lnType, DO type or SDO type that the IED
\* reaches, no id of a DAType, and no BDA type of a DAType the IED reaches.
DirectEnumRef(id) ==
    LET reach == Reachable(srcPool, device)
    IN /\ \E r \in reach : r[1] = "DOType" /\ id \in TypesOf(srcPool, "DOType", r[2], "DA")
       /\ ~Resolves(srcPool, "DAType", id)
       /\ \A r \in reach : r[1] \in {"LNodeType", "DOType"} => r[2] # id
       /\ \A r \in reach : r[1] = "DAType" => id \notin TypesOf(srcPool, "DAType", r[2], "BDA")

\* C7, as claimed: the enumeration-type gap.  An EnumType that only a DA of
\* a reachable DOType names is not among the found types and is not in the
\* pool of the new document.
EnumGap ==
    Built =>
        \A id \in EnumIds :
            DirectEnumRef(id)
                => ~includes(foundTypes, id) /\ ~Resolves(outPool, "EnumType", id)

\* C7, as amended: an EnumType named by a DA of a DOType that a DO of an
\* LNodeType of the extracted IED names is among the found types, and is
\* kept in the pool of the new document.
EnumKept ==
    Built =>
        \A id \in EnumIds :
            (\E d \in DirectDoTypes : id \in TypesOf(srcPool, "DOType", d, "DA"))
                => includes(foundTypes, id) /\ Resolves(outPool, "EnumType", id)

\* An EnumType that only a DA names, in a DOType named by a DO, is kept.
EnumKeptWitness ==
    /\ Built
    /\ \E id \in EnumIds :
          /\ DirectEnumRef(id)
          /\ \E d \in DirectDoTypes : id \in TypesOf(srcPool, "DOType", d, "DA")
          /\ Resolves(outPool, "EnumType", id)

\* C8: missing section handling.  A handler that fails has failed with a
\* failure that names the missing section, before anything was filtered or
\* appended.
MissingSectionFailsFast ==
    pc = "failed" => error = "MissingSection" /\ newDoc = <<>>

\* An id that extractTemplates collected names no template of the kind it
\* was collected for.
HasUnresolved ==
    \/ \E t \in Elems(lnTypes) : ~Resolves(srcPool, "LNodeType", t)
    \/ \E t \in Elems(doTypes) \cup Elems(sdoTypes) : ~Resolves(srcPool, "DOType", t)
    \/ \E t \in Elems(daTypes) \cup Elems(bdaTypes) : ~Resolves(srcPool, "DAType", t)

\* C9: an unresolved reference is skipped.  The handler fails only for a
\* missing section, and when a collected id names no template of its kind,
\* no found type lies outside what the references that resolve reach, and
\* every template reached through them is kept.
UnresolvedSkipped ==
    (pc = "failed" => srcComm = Null \/ srcPool = Null)
    /\ (Built /\ HasUnresolved =>
          /\ \A t \in Elems(foundTypes) :
                \E r \in Reachable(srcPool, device) : r[2] = t
          /\ \A r \in Reachable(srcPool, device) :
                Resolves(srcPool, r[1], r[2]) => Resolves(outPool, r[1], r[2]))

\* C10: the closure is a fixed point.  Once extractTemplates is through,
\* every SDO type of a collected DOType and every BDA type of a collected
\* DAType is among the found types.
ClosureIsFixedPoint ==
    Built =>
        /\ \A d \in Elems(doTypes) \cup Elems(sdoTypes) :
              TypesOf(srcPool, "DOType", d, "SDO") \subseteq Elems(foundTypes)
        /\ \A a \in Elems(daTypes) \cup Elems(bdaTypes) :
              TypesOf(srcPool, "DAType", a, "BDA") \subseteq Elems(foundTypes)

====
